---- MODULE Spec2Model ----
(***************************************************************************)
(* Model of xlsx2docx-byColumns.py: the program reads a configuration, a   *)
(* spreadsheet of commands and a template document, and writes one output  *)
(* document per content column.                                            *)
(*                                                                         *)
(* Strings are sequences of one-character strings, so that Python's        *)
(* substring test `x in y` is computed and not assumed.  A spreadsheet     *)
(* cell value is None, a string or a number, as openpyxl returns it.       *)
(* An exception is a value: the operation that raises returns it with the  *)
(* document as the exception left it, and the run stops at "failed".       *)
(*                                                                         *)
(* Spec is a run of the program from main to its end.  SpecCall is the     *)
(* handling of one replace_paragraph or add_paragraph row on a document,   *)
(* over every combination of its cell values.                              *)
(***************************************************************************)
EXTENDS Naturals, Sequences, FiniteSets

VARIABLES
    pc,        \* position of the run in main / xlx2docx / generateDocxFromXlsx
    argv,      \* sys.argv[1:] of the run
    cfgFiles,  \* the file system's configuration files: path -> content
    reported,  \* whether the "default configuration was written" banner was printed
    source,    \* the workbook file named by the configuration, or Missing
    template,  \* the template document file, or Missing
    user,      \* os.environ["USER"] (or "USERNAME"), or Missing
    myConfig,  \* the configuration main() loaded
    workbook,  \* the workbook load_workbook returned, or Missing
    stamped,   \* outputGeneratedFilenamesWithTimestamp
    dirs,      \* directories created by ensureDirectoryExists
    k,         \* index of the (filename, contentColumn) pair of the zip being generated
    row,       \* the row the loop of line 228 is at
    doc,       \* the document being edited
    saved,     \* the documents written by doc.save, in order
    diag,      \* number of "Unexpected object" diagnostics printed
    err,       \* the exception that ended the run, or "ok"
    last       \* the last document operation: its arguments and the document before it

vars == <<pc, argv, cfgFiles, reported, source, template, user, myConfig, workbook,
          stamped, dirs, k, row, doc, saved, diag, err, last>>

(***************************************************************************)
(* Cell values and strings                                                 *)
(***************************************************************************)
None == [t |-> "none", s |-> <<>>, n |-> 0]
Str(chars) == [t |-> "str", s |-> chars, n |-> 0]
Num(i) == [t |-> "num", s |-> <<>>, n |-> i]
\* What stands for a file, an object or a value that is not there.
Missing == [missing |-> TRUE]
NoUser == "<unset>"

IsStr(v) == v.t = "str"

\* Python's truth value of a cell value: None, "" and 0 are false.
Truthy(v) ==
    CASE v.t = "none" -> FALSE
      [] v.t = "str" -> Len(v.s) > 0
      [] OTHER -> v.n # 0

\* Python's `sub in text` for two strings.
Contains(sub, text) ==
    \E i \in 0..Len(text) :
        /\ i + Len(sub) <= Len(text)
        /\ SubSeq(text, i + 1, i + Len(sub)) = sub

ReplaceToken == <<"r","e","p","l","a","c","e","_","p","a","r","a","g","r","a","p","h">>
AddToken == <<"a","d","d","_","p","a","r","a","g","r","a","p","h">>
NoneLit == <<"N","o","n","e">>
Normal == <<"N","o","r","m","a","l">>
Heading == <<"H","e","a","d","i","n","g">>
Signature == <<"S","i","g","n","a","t","u","r","e">>

(***************************************************************************)
(* Documents: paragraphs in the body, in body tables (table -> row -> cell *)
(* -> paragraph) and, per section, in the header, the header's tables, the *)
(* footer and the footer's tables.  styles are the style names the         *)
(* template defines; default is its default paragraph style.               *)
(***************************************************************************)
P(text, style) == [text |-> text, style |-> style]

MkDoc(styles, body, tables, sections) ==
    [styles |-> styles, default |-> Normal, author |-> NoUser,
     paragraphs |-> body, tables |-> tables, sections |-> sections]

MkSection(hp, ht, fp, ft) ==
    [header |-> [paragraphs |-> hp, tables |-> ht],
     footer |-> [paragraphs |-> fp, tables |-> ft]]

RECURSIVE Flatten(_, _)
\* The paragraphs of a nested list, in iteration order: depth 0 is a list of
\* paragraphs, 1 a row's cells, 2 a table's rows, 3 a list of tables.
Flatten(depth, xs) ==
    IF xs = <<>> THEN <<>>
    ELSE (IF depth = 0 THEN <<Head(xs)>> ELSE Flatten(depth - 1, Head(xs)))
         \o Flatten(depth, Tail(xs))

RECURSIVE SectionParas(_)
SectionParas(sections) ==
    IF sections = <<>> THEN <<>>
    ELSE LET s == Head(sections) IN
         Flatten(0, s.header.paragraphs) \o Flatten(3, s.header.tables)
         \o Flatten(0, s.footer.paragraphs) \o Flatten(3, s.footer.tables)
         \o SectionParas(Tail(sections))

\* Every paragraph replaceParagraphInDoc visits, in the order it visits them.
AllParas(d) ==
    Flatten(0, d.paragraphs) \o Flatten(3, d.tables) \o SectionParas(d.sections)

(***************************************************************************)
(* python-docx, as the program uses it                                     *)
(***************************************************************************)
\* para.text = content: the paragraph is cleared, then add_run(content) adds
\* the text when it is true; a number other than 0 is not iterable.
SetText(para, content) ==
    IF ~Truthy(content) THEN [para |-> [para EXCEPT !.text = <<>>], err |-> "ok"]
    ELSE IF IsStr(content) THEN [para |-> [para EXCEPT !.text = content.s], err |-> "ok"]
    ELSE [para |-> [para EXCEPT !.text = <<>>], err |-> "TypeError"]

\* para.style = style: the style is looked up by name in the document's styles.
SetStyle(para, style, styles) ==
    IF IsStr(style) /\ style.s \in styles
    THEN [para |-> [para EXCEPT !.style = style.s], err |-> "ok"]
    ELSE [para |-> para, err |-> "KeyError"]

\* Variant: the literal "None" is not told apart from a style name.
StyleWantedAnyText(style) == Truthy(style)

\* Line 88: `style and style != "None"`.
StyleWanted(style) == Truthy(style) /\ style # Str(NoneLit)

replaceInParagraph(para, a) ==
    IF ~IsStr(a.replace) THEN [para |-> para, err |-> "TypeError"]
    ELSE IF Contains(a.replace.s, para.text)
    THEN LET p1 == SetText(para, a.content) IN
         IF p1.err # "ok" THEN p1
         ELSE IF StyleWanted(a.style) THEN SetStyle(p1.para, a.style, a.styles)
         ELSE p1
    ELSE [para |-> para, err |-> "ok"]

\* A loop's result: the list as the loop left it and the exception raised.
Result(v, e) == [v |-> v, err |-> e]

\* The result of a loop whose first pass gave h and whose later passes gave t.
Cons(h, t) == Result(<<h.v>> \o t.v, t.err)

ParaResult(r) == Result(r.para, r.err)

RECURSIVE forEach(_, _, _, _)
RECURSIVE Rest(_, _, _, _)

\* One pass of a loop over a nested list: at depth 0 the element is a
\* paragraph, handed to replaceInParagraph; deeper, it is the inner loop.
Visit(depth, x, a) ==
    IF depth = 0
    THEN ParaResult(replaceInParagraph(x, a))
    ELSE forEach(depth - 1, x, a, "ok")

\* The loops of replaceParagraphInDoc over a nested list (depth 0: a list of
\* paragraphs, 1: a row's cells, 2: a table's rows, 3: a list of tables); an
\* exception ends them, leaving the rest as it was.
forEach(depth, xs, a, e) ==
    IF xs = <<>> \/ e # "ok" THEN Result(xs, e)
    ELSE Rest(depth, Visit(depth, Head(xs), a), Tail(xs), a)

\* The passes after the first, whose result is h.
Rest(depth, h, xs, a) == Cons(h, forEach(depth, xs, a, h.err))

\* Lines 143-159 for one section: header paragraphs, header tables, footer
\* paragraphs, footer tables, each loop running unless one before it raised;
\* hp, ht, fp and ft are the results of the four loops.
SectionResult(hp, ht, fp, ft) == Result(MkSection(hp.v, ht.v, fp.v, ft.v), ft.err)

\* Variant: the footer's tables are not searched.
InFooterTablesSkipped(s, a, hp, ht, fp) ==
    SectionResult(hp, ht, fp, Result(s.footer.tables, fp.err))

InFooterTables(s, a, hp, ht, fp) ==
    SectionResult(hp, ht, fp, forEach(3, s.footer.tables, a, fp.err))

InFooter(s, a, hp, ht) ==
    InFooterTables(s, a, hp, ht, forEach(0, s.footer.paragraphs, a, ht.err))

InHeaderTables(s, a, hp) ==
    InFooter(s, a, hp, forEach(3, s.header.tables, a, hp.err))

forSection(s, a) ==
    InHeaderTables(s, a, forEach(0, s.header.paragraphs, a, "ok"))

RECURSIVE forSections(_, _, _)
RECURSIVE RestSections(_, _, _)

\* Line 142: the loop over doc.sections.
forSections(sections, a, e) ==
    IF sections = <<>> \/ e # "ok" THEN Result(sections, e)
    ELSE RestSections(forSection(Head(sections), a), Tail(sections), a)

RestSections(h, sections, a) == Cons(h, forSections(sections, a, h.err))

DocResult(d, b, t, s) ==
    [doc |-> [d EXCEPT !.paragraphs = b.v, !.tables = t.v, !.sections = s.v],
     err |-> s.err]

InSections(d, a, b, t) == DocResult(d, b, t, forSections(d.sections, a, t.err))

InTables(d, a, b) == InSections(d, a, b, forEach(3, d.tables, a, b.err))

Args(d, replace, content, style) ==
    [replace |-> replace, content |-> content, style |-> style, styles |-> d.styles]

replaceParagraphInDoc(d, replace, content, style) ==
    InTables(d, Args(d, replace, content, style),
             forEach(0, d.paragraphs, Args(d, replace, content, style), "ok"))

\* Variant: the new paragraph is put first in the body.
add_paragraph_first(d, content, style) ==
    [doc |-> [d EXCEPT !.paragraphs = <<P(IF IsStr(content) THEN content.s ELSE <<>>, d.default)>> \o @],
     err |-> "ok"]

\* doc.add_paragraph(content, style=style): the paragraph is appended to the
\* body, then its text is added, then the style is set unless it is None.
add_paragraph(d, content, style) ==
    LET p0 == P(<<>>, d.default)
        p1 == SetText(p0, content)
        p2 == IF p1.err # "ok" \/ style = None THEN p1
              ELSE SetStyle(p1.para, style, d.styles)
    IN [doc |-> [d EXCEPT !.paragraphs = Append(@, p2.para)], err |-> p2.err]

\* The body of the row loop of generateDocxFromXlsx (lines 234-243) for one
\* row's four cell values: what it does to the document, the exception it
\* raises, and whether it prints the "Unexpected object" diagnostic.
applyRow(d, command, replace, content, style) ==
    IF ~Truthy(command) THEN [doc |-> d, err |-> "ok", diag |-> 0, op |-> "skip"]
    ELSE IF ~IsStr(command)
    THEN [doc |-> d, err |-> "TypeError", diag |-> 0, op |-> "raise"]
    ELSE IF Contains(ReplaceToken, command.s)
    THEN LET r == replaceParagraphInDoc(d, replace, content, style)
         IN [doc |-> r.doc, err |-> r.err, diag |-> 0, op |-> "replace"]
    ELSE IF Contains(AddToken, command.s)
    THEN IF Truthy(content)
         THEN LET r == add_paragraph(d, content, style)
              IN [doc |-> r.doc, err |-> r.err, diag |-> 0, op |-> "add"]
         ELSE [doc |-> d, err |-> "ok", diag |-> 0, op |-> "add"]
    ELSE [doc |-> d, err |-> "ok", diag |-> 1, op |-> "unknown"]

\* What is remembered of a row's handling.
Call(op, command, replace, content, style, before) ==
    [op |-> op, command |-> command, replace |-> replace, content |-> content,
     style |-> style, before |-> before]

(***************************************************************************)
(* Inputs of the single-call specification                                 *)
(***************************************************************************)
MaxLen == 2
Alphabet == {"a", "b"}
Texts == UNION {[1..n -> Alphabet] : n \in 0..MaxLen}

StyleSets == {{Normal, Heading}, {Normal, Heading, NoneLit}}

\* A list of one table of one row of one cell holding paragraph p.
OneCell(p) == << << << <<p>> >> >> >>

CallDoc(styles, t1, t2) ==
    MkDoc(styles,
          <<P(t1, Heading), P(t2, Normal)>>,
          << << << <<P(t2, Normal)>>, <<P(t1, Normal), P(t2, Heading)>> >> >> >>,
          <<MkSection(<<P(t1, Normal)>>, OneCell(P(t2, Normal)),
                      <<P(t2, Heading)>>, OneCell(P(t1, Heading))),
            MkSection(<<P(t2, Normal)>>, <<>>, <<>>, OneCell(P(t1, Normal)))>>)

EmptyDoc(styles) == MkDoc(styles, <<>>, <<>>, <<>>)

CallDocs ==
    {CallDoc(st, t1, t2) : st \in StyleSets, t1 \in Texts, t2 \in Texts}
    \cup {EmptyDoc(st) : st \in StyleSets}

ReplaceVals == {None, Num(7)} \cup {Str(t) : t \in Texts}
ContentVals == {None, Num(7), Str(<<>>), Str(<<"a">>), Str(<<"b", "a">>)}
StyleVals == {None, Str(NoneLit), Str(Heading), Str(Signature)}

NoCall(d) == Call("none", None, None, None, None, d)

(***************************************************************************)
(* The single-call specification: one row, a replace_paragraph or an       *)
(* add_paragraph command, handled on a document drawn from CallDocs.       *)
(***************************************************************************)
InitCall ==
    /\ pc = "call"
    /\ argv = <<>>
    /\ cfgFiles = <<>>
    /\ reported = FALSE
    /\ source = Missing
    /\ template = Missing
    /\ user = NoUser
    /\ myConfig = Missing
    /\ workbook = Missing
    /\ stamped = <<>>
    /\ dirs = {}
    /\ k = 0
    /\ row = 0
    /\ doc \in CallDocs
    /\ saved = <<>>
    /\ diag = 0
    /\ err = "ok"
    /\ last = NoCall(doc)

RunUnchanged ==
    UNCHANGED <<argv, cfgFiles, reported, source, template, user, myConfig, workbook,
                stamped, dirs, k, row, saved>>

\* The outcome r of a row's handling becomes the state.
Handled(r, command, replace, content, style) ==
    /\ doc' = r.doc
    /\ err' = r.err
    /\ diag' = diag + r.diag
    /\ last' = Call(r.op, command, replace, content, style, doc)

CallReplace ==
    /\ pc = "call"
    /\ \E replace \in ReplaceVals, content \in ContentVals, style \in StyleVals :
           LET r == applyRow(doc, Str(ReplaceToken), replace, content, style) IN
           /\ Handled(r, Str(ReplaceToken), replace, content, style)
           /\ pc' = IF r.err = "ok" THEN "returned" ELSE "raised"
    /\ RunUnchanged

CallAdd ==
    /\ pc = "call"
    /\ \E content \in ContentVals, style \in StyleVals :
           LET r == applyRow(doc, Str(AddToken), None, content, style) IN
           /\ Handled(r, Str(AddToken), None, content, style)
           /\ pc' = IF r.err = "ok" THEN "returned" ELSE "raised"
    /\ RunUnchanged

NextCall == CallReplace \/ CallAdd

SpecCall == InitCall /\ [][NextCall]_vars

(***************************************************************************)
(* The run: main, loadConfiguration, xlx2docx, generateDocxFromXlsx        *)
(***************************************************************************)
DefaultPath == "xlsx2docx-byColumns_Configuration.toml"
AltPath == "somewhereElse/myAlternativeConfigfile.toml"

\* A filename, already split as os.path.dirname and os.path.splitext split it.
File(dir, base) == [dir |-> dir, base |-> base, ext |-> ".docx", uid |-> ""]

Cfg(startRow, cols, files) ==
    [contentSheetname |-> "Content", contentStartRow |-> startRow,
     commandColumn |-> 1, styleColumn |-> 2, replaceColumn |-> 3,
     contentColumns |-> cols, filenames |-> files]

\* The configuration the text of lines 254-284 parses to.
defaultConfiguration ==
    Cfg(2, <<4, 5, 6>>,
        <<File("", "generatedDataFile1"), File("", "generatedDataFile2"),
          File("", "generatedDataFile3")>>)

\* main, lines 397-408: the configuration file the run uses.
configurationFilename == IF argv # <<>> THEN argv[1] ELSE DefaultPath

\* Variant: the defaults are written to the conventional path, whatever the
\* path the run uses.
generateDefaultAtDefaultPath(files, path) ==
    [files EXCEPT ![DefaultPath] = defaultConfiguration]

\* generateDefaultConfigurationTomlFile: the file system after it wrote.
generateDefaultConfigurationTomlFile(files, path) ==
    [files EXCEPT ![path] = defaultConfiguration]

\* appendTimestampToFilename: "{name}_{uid}{ext}" with the formatted time.
appendTimestampToFilename(f) == [f EXCEPT !.uid = "_%Y-%m-%d_%H%M%S"]

\* ensureDirectoryExists: os.makedirs(dirname, exist_ok=True) raises
\* FileNotFoundError for the empty dirname of a bare filename.
ensureDirectoryExists(f) == f.dir # ""

\* sheet.cell(row=r, column=c).value: None for a cell the sheet does not hold.
Cell(sh, r, c) ==
    IF r \in 1..Len(sh.cells) /\ c \in 1..Len(sh.cells[r]) THEN sh.cells[r][c] ELSE None

max_row(sh) == Len(sh.cells)

\* Variant: the range ends one row early.
RangeEndBeforeLast(sh) == max_row(sh)

\* range(contentStartRow, sheet.max_row+1, 1): its exclusive end.
RangeEnd(sh) == max_row(sh) + 1

\* zip(outputGeneratedFilenamesWithTimestamp, contentColumns): its length
\* and the content column of its k-th pair.
ZipLen(files, cols) == IF Len(files) <= Len(cols) THEN Len(files) ELSE Len(cols)

\* Variant: the columns are paired from the end of the list.
ZipColumnReversed(cols, i) == cols[Len(cols) - i + 1]

ZipColumn(cols, i) == cols[i]

\* Variant: a pass after the first goes on with the document of the pass
\* before it.
DocumentReused(tpl) == IF k > 1 THEN doc ELSE tpl

\* docx.Document(templateFilename): a document read from the template file.
Document(tpl) == tpl

\* The content sheet of the loaded workbook.
sheet == workbook.content

\* One pass of the row loop body at row r with content column c.
RowAt(d, sh, cfg, r, c) ==
    applyRow(d, Cell(sh, r, cfg.commandColumn), Cell(sh, r, cfg.replaceColumn),
             Cell(sh, r, c), Cell(sh, r, cfg.styleColumn))

(***************************************************************************)
(* Inputs of the run                                                       *)
(***************************************************************************)
MaxRow == 2

BogusCommand == <<"t", "o", "c">>
RunTexts == {<<"a">>, <<"b">>}
StdStyles == {Normal, Heading}

SheetRow(command, style, replace, c4, c5) == <<command, style, replace, c4, c5>>

RunRows ==
    {SheetRow(None, None, None, Str(<<"a">>), Str(<<"b">>)),
     SheetRow(Str(BogusCommand), None, None, Str(<<"a">>), Str(<<"b">>)),
     SheetRow(Num(42), None, None, Str(<<"a">>), Str(<<"b">>))}
    \cup {SheetRow(Str(ReplaceToken), None, Str(m), Str(c4), Str(c5)) :
              m \in RunTexts, c4 \in RunTexts, c5 \in RunTexts}
    \cup {SheetRow(Str(<<"x">> \o AddToken), Str(Heading), None, c4, c5) :
              c4 \in {None, Str(<<"b">>)}, c5 \in {None, Str(<<"b">>)}}

Sheets == UNION {[1..n -> RunRows] : n \in 1..MaxRow}

FixedSheet == <<SheetRow(None, None, None, None, None)>>

Workbook(names, cells) == [sheetnames |-> names, content |-> [cells |-> cells]]

Sources ==
    {Missing, Workbook({"Other"}, FixedSheet)}
    \cup {Workbook({"Other", "Content"}, c) : c \in Sheets \cup {FixedSheet}}

RunTemplates == {CallDoc(StdStyles, <<"a">>, <<"b">>), EmptyDoc(StdStyles)}

FilenameLists ==
    {<<File("out", "f1")>>, <<File("out", "f1"), File("gen", "f2")>>,
     <<File("out", "f1"), File("", "f2")>>}

UserCfgs ==
    {Cfg(r, cols, files) :
        r \in {1, 2}, cols \in {<<4>>, <<4, 5>>}, files \in FilenameLists}

AltCfg == Cfg(1, <<5, 4>>, <<File("out", "f1"), File("out", "f2")>>)

Argvs == {<<>>, <<"--version">>, <<"--help">>, <<AltPath>>}

Init ==
    /\ pc = "main"
    /\ argv \in Argvs
    /\ cfgFiles \in [{DefaultPath, AltPath} -> {Missing} \cup UserCfgs \cup {AltCfg}]
    /\ cfgFiles[AltPath] \in {Missing, AltCfg}
    /\ cfgFiles[DefaultPath] # AltCfg
    /\ argv = <<AltPath>> => cfgFiles[DefaultPath] = Missing
    /\ argv # <<AltPath>> => cfgFiles[AltPath] = Missing
    /\ reported = FALSE
    /\ source \in Sources
    /\ template \in {Missing} \cup RunTemplates
    /\ user \in {NoUser, "alice"}
    \* a run that stops before it reads a row is drawn with one sheet only
    /\ \/ source \in {Missing, Workbook({"Other"}, FixedSheet),
                      Workbook({"Other", "Content"}, FixedSheet)}
       \/ /\ template # Missing
          /\ user # NoUser
          /\ argv \in {<<>>, <<AltPath>>}
    /\ myConfig = Missing
    /\ workbook = Missing
    /\ stamped = <<>>
    /\ dirs = {}
    /\ k = 0
    /\ row = 0
    /\ doc = Missing
    /\ saved = <<>>
    /\ diag = 0
    /\ err = "ok"
    /\ last = NoCall(Missing)

\* main, "--version": print the version and sys.exit().
MainVersion ==
    /\ pc = "main"
    /\ argv = <<"--version">>
    /\ pc' = "exit"
    /\ UNCHANGED <<argv, cfgFiles, reported, source, template, user, myConfig,
                   workbook, stamped, dirs, k, row, doc, saved, diag, err, last>>

\* main, "--help": printUsage() and sys.exit().
MainHelp ==
    /\ pc = "main"
    /\ argv = <<"--help">>
    /\ pc' = "exit"
    /\ UNCHANGED <<argv, cfgFiles, reported, source, template, user, myConfig,
                   workbook, stamped, dirs, k, row, doc, saved, diag, err, last>>

\* main calls loadConfiguration: a missing file is first written with the
\* defaults (and the banner printed), then the file is read.
LoadConfiguration ==
    /\ pc = "main"
    /\ argv \notin {<<"--version">>, <<"--help">>}
    /\ LET path == configurationFilename
           absent == cfgFiles[path] = Missing
           files == IF absent
                    THEN generateDefaultConfigurationTomlFile(cfgFiles, path)
                    ELSE cfgFiles
       IN /\ reported' = absent
          /\ cfgFiles' = files
          /\ myConfig' = files[path]
    /\ pc' = "xlx2docx"
    /\ UNCHANGED <<argv, source, template, user, workbook, stamped, dirs, k, row,
                   doc, saved, diag, err, last>>

\* xlx2docx: load_workbook raises when the file is missing.
LoadWorkbookFails ==
    /\ pc = "xlx2docx"
    /\ source = Missing
    /\ err' = "FileNotFoundError"
    /\ pc' = "failed"
    /\ UNCHANGED <<argv, cfgFiles, reported, source, template, user, myConfig,
                   workbook, stamped, dirs, k, row, doc, saved, diag, last>>

\* xlx2docx: the workbook is loaded; generateDocxFromXlsx is called for the
\* sheet named contentSheetname, if there is one.
LoadWorkbook ==
    /\ pc = "xlx2docx"
    /\ source # Missing
    /\ workbook' = source
    /\ pc' = IF myConfig.contentSheetname \in source.sheetnames
             THEN "generateDocxFromXlsx" ELSE "done"
    /\ UNCHANGED <<argv, cfgFiles, reported, source, template, user, myConfig,
                   stamped, dirs, k, row, doc, saved, diag, err, last>>

\* The first filename whose directory cannot be made, or 0.
FirstBare(files) ==
    IF \E i \in 1..Len(files) : ~ensureDirectoryExists(files[i])
    THEN CHOOSE i \in 1..Len(files) :
             /\ ~ensureDirectoryExists(files[i])
             /\ \A j \in 1..(i - 1) : ensureDirectoryExists(files[j])
    ELSE 0

\* appendTimestampToFilenames(outputFilenames), for every filename in order.
AppendTimestamps ==
    /\ pc = "generateDocxFromXlsx"
    /\ LET files == myConfig.filenames
           bad == FirstBare(files)
       IN IF bad = 0
          THEN /\ stamped' = [i \in 1..Len(files) |-> appendTimestampToFilename(files[i])]
               /\ dirs' = dirs \cup {files[i].dir : i \in 1..Len(files)}
               /\ k' = 1
               /\ pc' = "zip"
               /\ err' = err
          ELSE /\ dirs' = dirs \cup {files[i].dir : i \in 1..(bad - 1)}
               /\ err' = "FileNotFoundError"
               /\ pc' = "failed"
               /\ UNCHANGED <<stamped, k>>
    /\ UNCHANGED <<argv, cfgFiles, reported, source, template, user, myConfig,
                   workbook, row, doc, saved, diag, last>>

\* The zip of line 219 is exhausted: generateDocxFromXlsx returns.
Finish ==
    /\ pc = "zip"
    /\ k > ZipLen(stamped, myConfig.contentColumns)
    /\ pc' = "done"
    /\ UNCHANGED <<argv, cfgFiles, reported, source, template, user, myConfig,
                   workbook, stamped, dirs, k, row, doc, saved, diag, err, last>>

\* Lines 223-226: the template is opened and the author set.
OpenTemplate ==
    /\ pc = "zip"
    /\ k <= ZipLen(stamped, myConfig.contentColumns)
    /\ IF template = Missing
       THEN /\ err' = "PackageNotFoundError"
            /\ pc' = "failed"
            /\ UNCHANGED <<doc, row, last>>
       ELSE IF user = NoUser
       THEN /\ err' = "KeyError"
            /\ pc' = "failed"
            /\ doc' = Document(template)
            /\ UNCHANGED <<row, last>>
       ELSE /\ doc' = [Document(template) EXCEPT !.author = user]
            /\ row' = myConfig.contentStartRow
            /\ last' = NoCall(doc')
            /\ pc' = "rows"
            /\ err' = err
    /\ UNCHANGED <<argv, cfgFiles, reported, source, template, user, myConfig,
                   workbook, stamped, dirs, k, saved, diag>>

\* Lines 228-243: one row of the loop.
Row ==
    /\ pc = "rows"
    /\ row < RangeEnd(sheet)
    /\ LET cfg == myConfig
           c == ZipColumn(cfg.contentColumns, k)
           r == RowAt(doc, sheet, cfg, row, c)
       IN /\ Handled(r, Cell(sheet, row, cfg.commandColumn),
                     Cell(sheet, row, cfg.replaceColumn), Cell(sheet, row, c),
                     Cell(sheet, row, cfg.styleColumn))
          /\ pc' = IF r.err = "ok" THEN "rows" ELSE "failed"
          /\ row' = IF r.err = "ok" THEN row + 1 ELSE row
    /\ UNCHANGED <<argv, cfgFiles, reported, source, template, user, myConfig,
                   workbook, stamped, dirs, k, saved>>

\* Line 248: after the last row, the document is saved under the timestamped
\* filename; the zip goes on to its next pair.
Save ==
    /\ pc = "rows"
    /\ row >= RangeEnd(sheet)
    /\ saved' = Append(saved, [file |-> stamped[k],
                               column |-> ZipColumn(myConfig.contentColumns, k),
                               doc |-> doc])
    /\ k' = k + 1
    /\ pc' = "zip"
    /\ UNCHANGED <<argv, cfgFiles, reported, source, template, user, myConfig,
                   workbook, stamped, dirs, row, doc, diag, err, last>>

Next ==
    \/ MainVersion
    \/ MainHelp
    \/ LoadConfiguration
    \/ LoadWorkbookFails
    \/ LoadWorkbook
    \/ AppendTimestamps
    \/ Finish
    \/ OpenTemplate
    \/ Row
    \/ Save

Spec == Init /\ [][Next]_vars

(***************************************************************************)
(* Properties of one row's handling, read from `last` (the arguments and   *)
(* the document before) and `doc` (the document after).                    *)
(***************************************************************************)
\* s occurs in text at some position, character by character.
Occurs(s, text) ==
    \E i \in 1..(Len(text) + 1) :
        \A j \in 1..Len(s) : i + j - 1 <= Len(text) /\ text[i + j - 1] = s[j]

\* The text a content cell stands for: an absent cell is the empty text.
TextOf(c) == IF c.t = "str" THEN c.s ELSE <<>>

Before == AllParas(last.before)
After == AllParas(doc)

ReplaceReturned ==
    /\ last.op = "replace"
    /\ pc # "raised" /\ err = "ok"
    /\ last.replace.t = "str"
    /\ last.replace.s # <<>>
    /\ last.content.t \in {"none", "str"}
    /\ \E i \in 1..Len(Before) : Occurs(last.replace.s, Before[i].text)

\* C1: after replaceParagraphInDoc(D, s, c, style) has returned, with s a
\* non-empty string occurring in some paragraph of D, every paragraph of
\* every zone whose text contained s has text c (the empty text for an absent
\* c), and every other paragraph has the text it had.
Thm_C1_ReplaceRewritesEveryMatch ==
    ReplaceReturned =>
        /\ Len(After) = Len(Before)
        /\ \A i \in 1..Len(Before) :
               After[i].text = IF Occurs(last.replace.s, Before[i].text)
                               THEN TextOf(last.content)
                               ELSE Before[i].text

Wit_C1_MatchedAndUnmatched ==
    /\ ReplaceReturned
    /\ Len(After) = 11
    /\ Occurs(last.replace.s, Before[11].text) /\ After[11].text # Before[11].text
    /\ \E j \in 1..Len(Before) : ~Occurs(last.replace.s, Before[j].text)

\* C2 (as claimed): a replace_paragraph row whose match cell is absent or
\* empty raises nothing and leaves every paragraph's text and style as it was.
Claim_C2_EmptyMatchChangesNothing ==
    (last.op = "replace" /\ last.replace \in {None, Str(<<>>)}) =>
        (err = "ok" /\ doc = last.before)

AddedWithContent ==
    /\ last.op = "add"
    /\ last.content.t = "str"
    /\ last.content.s # <<>>

\* C3 (as claimed): an add_paragraph row whose style cell is absent or the
\* literal "None" raises no style lookup error and the appended paragraph has
\* the template's default paragraph style.
Claim_C3_NoneStyleIsDefault ==
    (AddedWithContent /\ last.style \in {None, Str(NoneLit)}) =>
        /\ err = "ok"
        /\ doc.paragraphs[Len(doc.paragraphs)].style = doc.default

\* C5: an add_paragraph row with content present adds exactly one body
\* paragraph, the last one, whose text is the content; every paragraph that
\* existed before keeps its place, text and style.
Thm_C5_AddAppendsOneParagraph ==
    AddedWithContent =>
        /\ Len(doc.paragraphs) = Len(last.before.paragraphs) + 1
        /\ doc.paragraphs[Len(doc.paragraphs)].text = last.content.s
        /\ SubSeq(doc.paragraphs, 1, Len(last.before.paragraphs))
               = last.before.paragraphs
        /\ doc.tables = last.before.tables
        /\ doc.sections = last.before.sections

Wit_C5_AddedStyledParagraph ==
    /\ AddedWithContent
    /\ err = "ok"
    /\ last.style = Str(Heading)
    /\ Len(last.before.paragraphs) = 2
    /\ doc.paragraphs[3] = P(last.content.s, Heading)

\* C6: a replace_paragraph row changes a paragraph's style only if the
\* paragraph's text contained the match string and the style cell is present
\* and not the literal "None".
Thm_C6_StyleChangesOnlyOnNamedMatch ==
    last.op = "replace" =>
        /\ Len(After) = Len(Before)
        /\ \A i \in 1..Len(Before) :
               After[i].style # Before[i].style =>
                   /\ last.replace.t = "str"
                   /\ Occurs(last.replace.s, Before[i].text)
                   /\ last.style \notin {None, Str(NoneLit)}

Wit_C6_StyleSetOnMatchOnly ==
    /\ last.op = "replace"
    /\ err = "ok"
    /\ last.style = Str(Heading)
    /\ \E i \in 1..Len(Before) :
           /\ Occurs(last.replace.s, Before[i].text)
           /\ Before[i].style = Normal /\ After[i].style = Heading
    /\ \E j \in 1..Len(Before) :
           /\ ~Occurs(last.replace.s, Before[j].text)
           /\ Before[j].style = Normal /\ After[j].style = Normal

(***************************************************************************)
(* Properties of the run                                                   *)
(***************************************************************************)
\* The template as a pass is to start from it: read afresh, author set.
FreshCopy == [template EXCEPT !.author = user]

FirstRow == myConfig.contentStartRow
LastRow == Len(workbook.content.cells)

RECURSIVE RowsApplied(_, _, _, _)
\* The document after the rows from..to, in increasing order, each applied
\* with content column c to what the rows before it left.
RowsApplied(d, c, from, to) ==
    IF to < from THEN d
    ELSE RowAt(RowsApplied(d, c, from, to - 1), workbook.content, myConfig, to, c).doc

\* Columns c1 and c2 hold equal cells on every row the loop reads.
SameCells(c1, c2) ==
    \A r \in FirstRow..LastRow :
        Cell(workbook.content, r, c1) = Cell(workbook.content, r, c2)

Shorter(a, b) == IF Len(a) <= Len(b) THEN Len(a) ELSE Len(b)

Bootstrapped == reported

\* C4 (as claimed): when the configuration file did not exist, the run
\* fails after writing the defaults: no spreadsheet is loaded and no output
\* document is generated or saved.
Claim_C4_BootstrapRunFails ==
    Bootstrapped =>
        /\ workbook = Missing
        /\ pc # "done"
        /\ doc = Missing
        /\ saved = <<>>

\* C4 (amended): when the configuration file did not exist, the defaults
\* are written to its path and reported, and the run goes on with them: the
\* spreadsheet they name is loaded when it exists; the run then stops without
\* any output document, failing on the missing spreadsheet or on the empty
\* directory name of the first default output filename, or ending normally
\* when the workbook has no content sheet.
Thm_C4_BootstrapRunContinuesWithDefaults ==
    Bootstrapped =>
        /\ cfgFiles[configurationFilename] = defaultConfiguration
        /\ myConfig = defaultConfiguration
        /\ pc \in {"xlx2docx", "generateDocxFromXlsx", "failed", "done"}
        /\ (pc # "xlx2docx" /\ source # Missing) => workbook = source
        /\ pc = "failed" =>
               /\ err = "FileNotFoundError"
               /\ \/ source = Missing
                  \/ myConfig.contentSheetname \in workbook.sheetnames
        /\ pc = "done" => myConfig.contentSheetname \notin workbook.sheetnames
        /\ doc = Missing
        /\ saved = <<>>

Wit_C4_SpreadsheetLoadedAfterBootstrap ==
    /\ Bootstrapped
    /\ workbook # Missing
    /\ pc = "failed"
    /\ dirs = {}

\* C7: every pass starts from a fresh copy of the template, whatever the
\* passes before it did, and two saved documents whose content columns hold
\* equal cells on every row are equal in every paragraph's text and style.
Thm_C7_OutputsAreIndependentCopies ==
    /\ (pc = "rows" /\ row = FirstRow) => doc = FreshCopy
    /\ \A i \in 1..Len(saved) : \A j \in 1..Len(saved) :
           SameCells(myConfig.contentColumns[i], myConfig.contentColumns[j])
               => saved[i].doc = saved[j].doc

Wit_C7_EqualColumnsEqualDocuments ==
    /\ Len(saved) = 2
    /\ myConfig.contentColumns[1] # myConfig.contentColumns[2]
    /\ SameCells(myConfig.contentColumns[1], myConfig.contentColumns[2])
    /\ saved[1].doc = saved[2].doc
    /\ AllParas(saved[1].doc) # AllParas(FreshCopy)

\* A command cell that is not empty and holds neither command token.
UnknownCommand(c) ==
    /\ c # None /\ c # Str(<<>>)
    /\ ~(c.t = "str" /\ (Occurs(ReplaceToken, c.s) \/ Occurs(AddToken, c.s)))

\* C8 (as claimed): a row whose command cell is not empty and holds neither
\* command token raises nothing and leaves the document unchanged, whatever
\* the cell's value.
Claim_C8_UnknownCommandNeverFatal ==
    (last.op # "none" /\ UnknownCommand(last.command)) =>
        /\ err = "ok"
        /\ pc # "failed"
        /\ doc = last.before

\* C9: within a pass the rows are applied in increasing order from
\* contentStartRow, each to the document the rows before it left, and the
\* document is saved after the sheet's last row and not before.
Thm_C9_RowsAppliedInOrder ==
    /\ pc = "rows" =>
           /\ row >= FirstRow
           /\ row <= LastRow + 1 \/ row = FirstRow
           /\ doc = RowsApplied(FreshCopy, myConfig.contentColumns[k], FirstRow, row - 1)
    /\ \A i \in 1..Len(saved) :
           saved[i].doc =
               RowsApplied(FreshCopy, myConfig.contentColumns[i], FirstRow, LastRow)

Wit_C9_LaterRowMatchesEarlierText ==
    /\ pc = "rows"
    /\ last.op = "replace"
    /\ row = FirstRow + 2
    /\ \E i \in 1..Len(AllParas(FreshCopy)) :
           /\ ~Occurs(last.replace.s, AllParas(FreshCopy)[i].text)
           /\ Occurs(last.replace.s, Before[i].text)
           /\ After[i].text = TextOf(last.content)
           /\ After[i].text # Before[i].text

\* C10: lists of different lengths are no error of their own; the k-th
\* saved document pairs the k-th filename with the k-th content column, and
\* a run that ends normally has saved as many documents as the shorter list
\* has entries.
Thm_C10_ZipTruncatesToShorterList ==
    /\ saved # <<>> => Len(saved) <= Shorter(myConfig.filenames, myConfig.contentColumns)
    /\ \A i \in 1..Len(saved) :
           /\ saved[i].file = [myConfig.filenames[i] EXCEPT !.uid = "_%Y-%m-%d_%H%M%S"]
           /\ saved[i].column = myConfig.contentColumns[i]
    /\ (pc = "done" /\ stamped # <<>>) =>
           Len(saved) = Shorter(myConfig.filenames, myConfig.contentColumns)
    /\ (pc = "failed" /\ stamped # <<>>) =>
           \/ template = Missing
           \/ user = NoUser
           \/ last.op \in {"raise", "replace", "add"}

Wit_C10_SurplusFilenameDropped ==
    /\ pc = "done"
    /\ Len(myConfig.filenames) = 2
    /\ Len(myConfig.contentColumns) = 1
    /\ Len(saved) = 1
    /\ dirs = {"out", "gen"}
====
